---- MODULE Spec2Model ----
(***************************************************************************)
(* Model of the STR long/short rebalancing strategy:                       *)
(*   optimize_portfolio  (src/optimize_portfolio.py)                       *)
(*   backtest_strategy   (src/backtest.py)                                 *)
(*   STRRunner           (src/STRRunner.py)                                *)
(*                                                                         *)
(* Numbers are integers over fixed denominators.  An input parameter       *)
(* (max_weight, a range limit, a beta) p stands for p / Den; a weight w    *)
(* stands for w / WeightScale; a daily return r stands for r / Den.        *)
(* A missing number is NaN, a missing label is None.                       *)
(***************************************************************************)
EXTENDS Integers, Sequences, FiniteSets, TLC

VARIABLES
    \* optimize_portfolio call frame
    opt_in,        \* arguments: data, beta_target_range, sector_exposure_target, max_weight, log
    opt_out,       \* outcome: what the call returned, or the error it raised
    \* backtest_strategy call frame
    bt_in,         \* arguments: optimized_portfolios, schedule, daily_returns
    bt_out,        \* outcome: the strategy_returns frame, or the error raised
    \* the fields of an STRRunner
    schedule,
    constituents,
    constituent_data,
    returns,
    optimized_portfolios,
    solutions,
    strategy_returns,
    cumulative_strategy_returns,
    raised,        \* the exception the last method call ended with, or "none"
    gs             \* grid_search call frame: combinations left, results so far

calls == <<opt_in, opt_out, bt_in, bt_out>>

fields == <<schedule, constituents, constituent_data, returns, optimized_portfolios,
            solutions, strategy_returns, cumulative_strategy_returns>>

vars == <<opt_in, opt_out, bt_in, bt_out, schedule, constituents, constituent_data,
          returns, optimized_portfolios, solutions, strategy_returns,
          cumulative_strategy_returns, raised, gs>>

\* numpy.nan: a value no number of the model takes.
NaN == -1000

\* A missing entry of an object (string) column.
None == "None"

\* Denominator of input parameters (tenths: 0.1 is 1, 0.5 is 5, 1.0 is 10).
Den == 10

\* Denominator of the solver's weight grid: a weight is a multiple of 1/WeightScale.
WeightScale == 2

\* Number of rows of the universe handed to optimize_portfolio.
NAssets == 4

\* A call frame before the call.
NotCalled == [kind |-> "none"]

RECURSIVE SumOver(_, _)
\* Sum of f[i] over the finite set S.
SumOver(f, S) ==
    IF S = {} THEN 0
    ELSE LET i == CHOOSE j \in S : TRUE
         IN  f[i] + SumOver(f, S \ {i})

RECURSIVE SumTo(_, _)
\* Sum of f[1] .. f[n].
SumTo(f, n) == IF n = 0 THEN 0 ELSE f[n] + SumTo(f, n - 1)

-----------------------------------------------------------------------------
(* optimize_portfolio                                                      *)

\* A row of `data` with the four required columns and the Z_SCORE column the
\* code derives from them for each liquidity transform (zlog: log == True).
Rows ==
    << [ret |-> 1,   beta |-> 5,   sector |-> "A", turnover |-> 3, zlog |-> -1, zraw |-> 1],
       [ret |-> 2,   beta |-> -5,  sector |-> "B", turnover |-> 3, zlog |-> 1,  zraw |-> -1],
       [ret |-> 1,   beta |-> 10,  sector |-> "C", turnover |-> 8, zlog |-> 0,  zraw |-> 0],
       [ret |-> -1,  beta |-> 0,   sector |-> "A", turnover |-> 8, zlog |-> 1,  zraw |-> 1],
       [ret |-> NaN, beta |-> 5,   sector |-> "B", turnover |-> 3, zlog |-> 0,  zraw |-> 0] >>

HasRequired(r) ==
    /\ r.ret # NaN
    /\ r.beta # NaN
    /\ r.sector # None
    /\ r.turnover # NaN

\* data.dropna(subset=[...]): the rows that have the four required columns.
DropNa(data) == SelectSeq(data, HasRequired)

\* data["Z_SCORE"] under the selected liquidity transform (data after dropna).
ZScore(data, log) ==
    [i \in DOMAIN data |-> IF log = TRUE THEN data[i].zlog ELSE data[i].zraw]

\* pd.get_dummies(data["GICS_SECTOR_NAME"]).columns: the distinct sectors.
SectorColumns(data) == { data[i].sector : i \in DOMAIN data }

\* weights = longs - shorts
Weights(x) == [i \in DOMAIN x |-> x[i].longs - x[i].shorts]

MutexBroken(v, max_weight) ==
    /\ v.longs * Den <= max_weight * WeightScale
    /\ v.shorts * Den <= max_weight * WeightScale

\* longs <= max_weight * z, shorts <= max_weight * (1 - z), for one asset
Exclusivity(v, max_weight) ==
    /\ v.longs * Den <= max_weight * WeightScale * v.z
    /\ v.shorts * Den <= max_weight * WeightScale * (1 - v.z)

\* beta_exposure = data["BETA_RAW_OVERRIDABLE"].values @ weights, in units of
\* 1 / (Den * WeightScale)
BetaExposure(data, w) == SumTo([i \in DOMAIN w |-> data[i].beta * w[i]], Len(w))

BetaUnbounded(data, w, range) == TRUE

BetaConstraints(data, w, range) ==
    /\ BetaExposure(data, w) >= range[1] * WeightScale
    /\ BetaExposure(data, w) <= range[2] * WeightScale

\* sector_exposure = sector_dummies[sector].values @ weights, in units of 1 / WeightScale
SectorExposure(data, w, sector) ==
    SumTo([i \in DOMAIN w |-> IF data[i].sector = sector THEN w[i] ELSE 0], Len(w))

SectorConstraints(data, w, range) ==
    \A sector \in SectorColumns(data) :
        /\ SectorExposure(data, w, sector) * Den >= range[1] * WeightScale
        /\ SectorExposure(data, w, sector) * Den <= range[2] * WeightScale

\* The values one asset's (longs, shorts, z) can take: nonneg, nonneg, boolean,
\* under the per-asset constraints.
AssetValues(max_weight) ==
    { v \in [longs : 0..WeightScale, shorts : 0..WeightScale, z : {0, 1}] :
        Exclusivity(v, max_weight) }

RECURSIVE Books(_, _, _, _)
\* The assignments of values to assets 1..n in which the longs sum to L and
\* the shorts sum to S (both in units of 1 / WeightScale).
Books(n, L, S, values) ==
    IF n = 0
    THEN IF L = 0 /\ S = 0 THEN { <<>> } ELSE {}
    ELSE UNION { { Append(x, v) : x \in Books(n - 1, L - v.longs, S - v.shorts, values) } :
                   v \in { u \in values : u.longs <= L /\ u.shorts <= S } }

LongSumOnly(data, max_weight) ==
    UNION { Books(Len(data), WeightScale, S, AssetValues(max_weight)) :
              S \in 0..(Len(data) * WeightScale) }

\* cp.sum(longs) == 1, cp.sum(shorts) == 1: the assignments within the
\* per-asset constraints whose long book and short book each sum to 1.
SumConstraints(data, max_weight) ==
    Books(Len(data), WeightScale, WeightScale, AssetValues(max_weight))

\* The assignments that satisfy every constraint of the problem (data after
\* dropna).
Feasible(data, beta_target_range, sector_exposure_target, max_weight) ==
    { x \in SumConstraints(data, max_weight) :
        /\ BetaConstraints(data, Weights(x), beta_target_range)
        /\ SectorConstraints(data, Weights(x), sector_exposure_target) }

\* objective = cp.Minimize(weights @ data["Z_SCORE"].values)
Objective(data, log, x) ==
    SumTo([i \in DOMAIN x |-> (x[i].longs - x[i].shorts) * ZScore(data, log)[i]], Len(x))

\* problem.solve(): the solver's status and, when optimal, one of the optimal
\* assignments with its objective value.
Solve(data, beta_target_range, sector_exposure_target, max_weight, log) ==
    LET F == Feasible(data, beta_target_range, sector_exposure_target, max_weight)
        values == { Objective(data, log, x) : x \in F }
        best == CHOOSE m \in values : \A n \in values : m <= n
    IN  IF F = {}
        THEN { [status |-> "infeasible"] }
        ELSE { [status |-> "optimal", x |-> x, value |-> best] :
                 x \in { y \in F : Objective(data, log, y) = best } }

ZeroWeightOnFailure(data, s) ==
    IF s.status # "optimal"
    THEN [kind |-> "returned",
          weights |-> [i \in DOMAIN data |-> 0],
          longs |-> [i \in DOMAIN data |-> 0],
          shorts |-> [i \in DOMAIN data |-> 0],
          solution |-> NaN]
    ELSE [kind |-> "returned",
          weights |-> Weights(s.x),
          longs |-> [i \in DOMAIN s.x |-> s.x[i].longs],
          shorts |-> [i \in DOMAIN s.x |-> s.x[i].shorts],
          solution |-> s.value]

\* What optimize_portfolio does with the solver's answer s: raise ValueError
\* carrying the status, or return the "Optimized Weight" column (with the
\* longs.value and shorts.value it is made of) and the objective value.
Outcome(data, s) ==
    IF s.status # "optimal"
    THEN [kind |-> "raised", error |-> "ValueError", status |-> s.status]
    ELSE [kind |-> "returned",
          weights |-> Weights(s.x),
          longs |-> [i \in DOMAIN s.x |-> s.x[i].longs],
          shorts |-> [i \in DOMAIN s.x |-> s.x[i].shorts],
          solution |-> s.value]

\* Every outcome a call of optimize_portfolio with arguments a can have.
optimize_portfolio(a) ==
    LET data == DropNa(a.data)
    IN  { Outcome(data, s) :
            s \in Solve(data, a.beta_target_range, a.sector_exposure_target,
                        a.max_weight, a.log) }

-----------------------------------------------------------------------------
(* backtest_strategy                                                       *)

LocOpenEnd(index, a, b) == { d \in index : a <= d /\ d < b }

LocNoLowerBound(index, a, b) == { d \in index : d <= b }

\* daily_returns.loc[a:b]: the labels of a sorted date index inside [a, b],
\* both ends included; an end that is not a label of the index cuts nothing.
Loc(index, a, b) == { d \in index : a <= d /\ d <= b }

\* One row of (holding_period_returns * portfolio_weights).sum(axis=1): the
\* product aligns the weights' tickers with the columns; a ticker missing on
\* either side, or a NaN return, gives NaN, which sum() skips.  In units of
\* 1 / (Den * WeightScale).
RowSum(returns_row, portfolio_weights) ==
    LET both == DOMAIN returns_row \cap DOMAIN portfolio_weights
        product == [t \in both |->
                      IF returns_row[t] = NaN \/ portfolio_weights[t] = NaN
                      THEN 0
                      ELSE returns_row[t] * portfolio_weights[t]]
    IN  SumOver(product, both)

\* strategy_returns["Portfolio Returns"] = 0.0 over daily_returns.index
ZeroSeries(daily_returns) == [d \in daily_returns.index |-> 0]

FirstWriteWins(series, row, portfolios, daily_returns) ==
    IF row.third_to_last \notin DOMAIN portfolios
    THEN series
    ELSE LET portfolio_weights == portfolios[row.third_to_last]
             holding == Loc(daily_returns.index, row.third_to_last, row.second_to_last)
         IN  [d \in DOMAIN series |->
                IF d \in holding /\ series[d] = 0
                THEN RowSum(daily_returns.values[d], portfolio_weights)
                ELSE series[d]]

\* The body of the loop over schedule.iterrows() for one row.
ScheduleRow(series, row, portfolios, daily_returns) ==
    IF row.third_to_last \notin DOMAIN portfolios
    THEN series
    ELSE LET portfolio_weights == portfolios[row.third_to_last]
             holding == Loc(daily_returns.index, row.third_to_last, row.second_to_last)
         IN  [d \in DOMAIN series |->
                IF d \in holding
                THEN RowSum(daily_returns.values[d], portfolio_weights)
                ELSE series[d]]

RECURSIVE ScheduleLoop(_, _, _, _, _)
\* for _, row in schedule.iterrows(): rows k, k+1, ... in order.
ScheduleLoop(series, k, entries, portfolios, daily_returns) ==
    IF k > Len(entries)
    THEN series
    ELSE ScheduleLoop(
             ScheduleRow(series, entries[k], portfolios, daily_returns),
             k + 1, entries, portfolios, daily_returns)

\* strategy_returns.fillna(0.0)
FillNa(series) == [d \in DOMAIN series |-> IF series[d] = NaN THEN 0 ELSE series[d]]

RECURSIVE ProdOver(_, _)
ProdOver(f, S) ==
    IF S = {} THEN 1
    ELSE LET i == CHOOSE j \in S : TRUE
         IN  f[i] * ProdOver(f, S \ {i})

CumSum(series) ==
    [d \in DOMAIN series |->
        Den * WeightScale + SumOver(series, { e \in DOMAIN series : e <= d })]

\* (1 + series).cumprod(): at date d the product of (1 + r) over the dates up
\* to d.  The entry at the n-th date of the index is in units of
\* 1 / (Den * WeightScale)^n.
CumProd(series) ==
    [d \in DOMAIN series |->
        ProdOver([e \in DOMAIN series |-> Den * WeightScale + series[e]],
                 { e \in DOMAIN series : e <= d })]

\* backtest_strategy(optimized_portfolios, schedule, daily_returns)
backtest_strategy(a) ==
    LET portfolio_returns ==
            FillNa(ScheduleLoop(ZeroSeries(a.daily_returns), 1, a.schedule,
                                a.optimized_portfolios, a.daily_returns))
    IN  [kind |-> "returned",
         portfolio_returns |-> portfolio_returns,
         cumulative_returns |-> CumProd(portfolio_returns)]

-----------------------------------------------------------------------------
(* STRRunner                                                               *)

\* The value {} of a field that holds a dict until a method replaces it.
EmptyDict == [type |-> "dict"]

\* The value None of self.schedule.
NoSchedule == [type |-> "None"]

\* STRRunner.__init__
Constructed ==
    /\ schedule = NoSchedule
    /\ constituents = EmptyDict
    /\ constituent_data = << >>
    /\ returns = EmptyDict
    /\ optimized_portfolios = << >>
    /\ solutions = << >>
    /\ strategy_returns = EmptyDict
    /\ cumulative_strategy_returns = EmptyDict
    /\ raised = "none"
    /\ gs = NotCalled

\* get_last_fridays_for_years: one row per quarter, the snapshot Thursday one
\* day before the entry Friday, the exit Friday after it; day numbers.
Quarters == 2
GeneratedSchedule ==
    [q \in 1..Quarters |->
        [thursday |-> 3 * q - 2, third_to_last |-> 3 * q - 1, second_to_last |-> 3 * q]]

\* Tickers of the rows of a universe, by position.
TickerNames == <<"X", "Y", "Z", "W", "V", "U">>

\* The universes the data vendor answers with: one with four complete rows,
\* and one with no complete row at all (a date in the future).
VendorUniverses ==
    { [i \in 1..NAssets |-> Rows[IF i <= 4 THEN i ELSE 5]],
      [i \in 1..NAssets |-> Rows[5]] }

\* The price tables the vendor answers with, as self.prices.pct_change(): the
\* first row is all NaN.
VendorReturns ==
    { [index |-> 1..(3 * Quarters),
       values |-> [d \in 1..(3 * Quarters) |->
                     [t \in { TickerNames[i] : i \in 1..NAssets } |->
                        IF d = 1 THEN NaN
                        ELSE IF t \in {"X", "Z"} THEN ((d + k) % 3) - 1
                        ELSE (d % 2) + k]]] : k \in {0, 1} }

\* self.schedule[self.schedule['Third-to-Last Thursday'] == key]['Third-to-Last Friday'].iloc[0]
FridayOf(sched, key) ==
    LET k == CHOOSE i \in DOMAIN sched.rows : sched.rows[i].thursday = key
    IN  sched.rows[k].third_to_last

RECURSIVE KeptIndex(_, _)
\* The index labels (positions in the vendor's frame) dropna leaves, in order.
KeptIndex(data, i) ==
    IF i > Len(data) THEN << >>
    ELSE IF HasRequired(data[i]) THEN <<i>> \o KeptIndex(data, i + 1)
    ELSE KeptIndex(data, i + 1)

\* The 'Optimized Weight' column of a returned frame, by ticker.
OptimizedWeight(data, out) ==
    LET kept == KeptIndex(data, 1)
    IN  [t \in { TickerNames[kept[i]] : i \in DOMAIN kept } |->
           out.weights[CHOOSE i \in DOMAIN kept : TickerNames[kept[i]] = t]]

\* The try/except of create_portfolios for one key: a returned frame is stored
\* under the entry date, an exception is printed and nothing is stored.
StoreOutcome(st, date, data, out) ==
    IF out.kind = "returned"
    THEN [portfolios |-> (date :> OptimizedWeight(data, out)) @@ st.portfolios,
          solutions |-> (date :> out.solution) @@ st.solutions]
    ELSE st

RECURSIVE CreateLoop(_, _, _, _, _)
\* for key in self.constituent_data.keys(): every state the loop can end in.
CreateLoop(keys, st, sched, data, p) ==
    IF keys = {} THEN { st }
    ELSE LET key == CHOOSE k \in keys : \A k2 \in keys : k <= k2
             outs == optimize_portfolio(
                         [data |-> data[key],
                          beta_target_range |-> p.beta_range,
                          sector_exposure_target |-> p.sector_range,
                          max_weight |-> p.max_weight,
                          log |-> p.log])
         IN  UNION { CreateLoop(keys \ {key},
                                StoreOutcome(st, FridayOf(sched, key), data[key], o),
                                sched, data, p) : o \in outs }

\* create_portfolios(beta_range, sector_range, max_weight, log): the outcomes.
create_portfolios(portfolios, sols, sched, data, p) ==
    IF DOMAIN data = {}
    THEN { [kind |-> "raised", error |-> "ValueError"] }
    ELSE { [kind |-> "returned", portfolios |-> st.portfolios, solutions |-> st.solutions] :
             st \in CreateLoop(DOMAIN data, [portfolios |-> portfolios, solutions |-> sols],
                               sched, data, p) }

\* run_backtest(): an error, or the frame backtest_strategy returns.  A
\* returns field still holding {} has no .index.
run_backtest(portfolios, sched, rets) ==
    IF DOMAIN portfolios = {}
    THEN [kind |-> "raised", error |-> "ValueError"]
    ELSE IF rets = EmptyDict
    THEN [kind |-> "raised", error |-> "AttributeError"]
    ELSE backtest_strategy([optimized_portfolios |-> portfolios,
                            schedule |-> sched.rows,
                            daily_returns |-> rets])

\* itertools.product(beta_limits, sector_limits, max_weights, log): the
\* combinations in order, the last list varying fastest.
Product(B, S, M, L) ==
    [k \in 1..(Len(B) * Len(S) * Len(M) * Len(L)) |->
        LET i == k - 1
        IN  [beta_limit |-> B[(i \div (Len(S) * Len(M) * Len(L))) + 1],
             sector_limit |-> S[((i \div (Len(M) * Len(L))) % Len(S)) + 1],
             max_weight |-> M[((i \div Len(L)) % Len(M)) + 1],
             log |-> L[(i % Len(L)) + 1]]]

\* self.strategy_returns.loc[start:].add(1).cumprod().iloc[-1]
FinalCumulativeReturn(series, start) ==
    ProdOver([d \in DOMAIN series |-> Den * WeightScale + series[d]],
             { d \in DOMAIN series : d >= start })

\* The arguments create_portfolios gets for a combination.
ParamsOf(c) ==
    [beta_range |-> <<-c.beta_limit, c.beta_limit>>,
     sector_range |-> <<-c.sector_limit, c.sector_limit>>,
     max_weight |-> c.max_weight,
     log |-> c.log]

-----------------------------------------------------------------------------
(* Calls of backtest_strategy on bounded inputs                            *)

\* Dates are the day numbers 1..MaxDate.
MaxDate == 4
Dates == 1..MaxDate

\* 'Optimized Weight' columns, indexed by ticker ("W" is no column of the
\* daily returns).
WeightColumns ==
    { [t \in {"X", "Y"} |-> IF t = "X" THEN WeightScale ELSE -WeightScale],
      [t \in {"X", "Y"} |-> IF t = "X" THEN -WeightScale ELSE WeightScale],
      [t \in {"X", "W"} |-> IF t = "X" THEN -WeightScale ELSE WeightScale] }

\* Rows of the daily-returns table over the columns X and Y; the first row of
\* prices.pct_change() is all NaN.
ReturnRows ==
    << [t \in {"X", "Y"} |-> NaN],
       [t \in {"X", "Y"} |-> IF t = "X" THEN 1 ELSE -2],
       [t \in {"X", "Y"} |-> IF t = "X" THEN NaN ELSE 3],
       [t \in {"X", "Y"} |-> IF t = "X" THEN 2 ELSE 1] >>

\* Tables with a sorted index lo..hi whose rows cycle through ReturnRows.
ReturnTables ==
    { [index |-> lo..hi,
       values |-> [d \in lo..hi |-> ReturnRows[((d + k) % Len(ReturnRows)) + 1]]] :
        lo \in {1, 2}, hi \in {MaxDate - 1, MaxDate}, k \in 0..2 }

\* Schedule rows: the entry date strictly before the exit date.
ScheduleRows ==
    { r \in [third_to_last : Dates, second_to_last : Dates] :
        r.third_to_last < r.second_to_last }

Schedules ==
    { <<r>> : r \in ScheduleRows } \cup { <<r, q>> : r \in ScheduleRows, q \in ScheduleRows }

\* Dicts of at most two portfolios keyed by entry date.
Portfolios ==
    UNION { [K -> WeightColumns] :
              K \in { S \in SUBSET (1..(MaxDate - 1)) : Cardinality(S) <= 2 } }

BtArgs ==
    [optimized_portfolios : Portfolios,
     schedule : Schedules,
     daily_returns : ReturnTables]

BtInit ==
    /\ bt_in \in BtArgs
    /\ bt_out = NotCalled
    /\ opt_in = NotCalled
    /\ opt_out = NotCalled
    /\ Constructed

BacktestStrategy ==
    /\ bt_out = NotCalled
    /\ bt_out' = backtest_strategy(bt_in)
    /\ UNCHANGED <<opt_in, opt_out, bt_in, fields, raised, gs>>

BtNext == BacktestStrategy

SpecBT == BtInit /\ [][BtNext]_vars

-----------------------------------------------------------------------------
(* Calls of optimize_portfolio on bounded inputs                           *)

MaxWeights == {1, 5, 10}
Ranges == { <<-1, 1>>, <<-10, 10>> }

\* The universes of NAssets rows, up to the order of the rows (no step of
\* optimize_portfolio depends on it).
Universes ==
    { [i \in 1..NAssets |-> Rows[f[i]]] :
        f \in { g \in [1..NAssets -> 1..Len(Rows)] :
                  \A i \in 1..(NAssets - 1) : g[i] <= g[i + 1] } }

OptArgs ==
    [data : Universes,
     beta_target_range : Ranges,
     sector_exposure_target : Ranges,
     max_weight : MaxWeights,
     log : BOOLEAN]

OptInit ==
    /\ opt_in \in OptArgs
    /\ opt_out = NotCalled
    /\ bt_in = NotCalled
    /\ bt_out = NotCalled
    /\ Constructed

OptimizePortfolio ==
    /\ opt_out = NotCalled
    /\ opt_out' \in optimize_portfolio(opt_in)
    /\ UNCHANGED <<opt_in, bt_in, bt_out, fields, raised, gs>>

OptNext == OptimizePortfolio

SpecOpt == OptInit /\ [][OptNext]_vars

-----------------------------------------------------------------------------
(* Method calls on a freshly constructed STRRunner                         *)

\* Arguments of direct calls of create_portfolios.
DirectParams ==
    { [beta_range |-> <<-10, 10>>, sector_range |-> <<-10, 10>>, max_weight |-> 5, log |-> TRUE],
      [beta_range |-> <<-1, 1>>, sector_range |-> <<-1, 1>>, max_weight |-> 5, log |-> FALSE] }

\* Arguments of grid_search.
GridArgs ==
    [beta_limits : { <<10>> },
     sector_limits : { <<10, 1>>, <<1>> },
     max_weights : { <<5>>, <<1, 5>> },
     log : { <<TRUE, FALSE>> },
     start : { 2, 3 * Quarters + 1 }]

RunnerInit ==
    /\ Constructed
    /\ opt_in = NotCalled
    /\ opt_out = NotCalled
    /\ bt_in = NotCalled
    /\ bt_out = NotCalled

\* No grid_search is under way: the caller can make the next call (which
\* drops the frame of a grid_search that has ended).
Idle == gs.kind # "running"

GenerateSchedule ==
    /\ Idle
    /\ gs' = NotCalled
    /\ schedule' = [type |-> "DataFrame", rows |-> GeneratedSchedule]
    /\ raised' = "none"
    /\ UNCHANGED <<calls, constituents, constituent_data, returns, optimized_portfolios,
                   solutions, strategy_returns, cumulative_strategy_returns>>

RetrieveIndexConstituents ==
    /\ Idle
    /\ gs' = NotCalled
    /\ IF schedule = NoSchedule
       THEN /\ raised' = "ValueError"
            /\ UNCHANGED constituents
       ELSE /\ constituents' =
                 [type |-> "DataFrame",
                  index |-> { schedule.rows[k].thursday : k \in DOMAIN schedule.rows }]
            /\ raised' = "none"
    /\ UNCHANGED <<calls, schedule, constituent_data, returns, optimized_portfolios,
                   solutions, strategy_returns, cumulative_strategy_returns>>

FetchRelevantData ==
    /\ Idle
    /\ gs' = NotCalled
    /\ IF constituents.type # "DataFrame"
       THEN /\ raised' = "ValueError"
            /\ UNCHANGED constituent_data
       ELSE /\ constituent_data' \in [constituents.index -> VendorUniverses]
            /\ raised' = "none"
    /\ UNCHANGED <<calls, schedule, constituents, returns, optimized_portfolios,
                   solutions, strategy_returns, cumulative_strategy_returns>>

FetchPrices ==
    /\ Idle
    /\ gs' = NotCalled
    /\ IF constituents.type # "DataFrame"
       THEN /\ raised' = "ValueError"
            /\ UNCHANGED returns
       ELSE /\ returns' \in VendorReturns
            /\ raised' = "none"
    /\ UNCHANGED <<calls, schedule, constituents, constituent_data, optimized_portfolios,
                   solutions, strategy_returns, cumulative_strategy_returns>>

CreatePortfolios ==
    /\ Idle
    /\ gs' = NotCalled
    /\ \E p \in DirectParams :
         \E made \in create_portfolios(optimized_portfolios, solutions, schedule,
                                       constituent_data, p) :
            IF made.kind = "raised"
            THEN /\ raised' = made.error
                 /\ UNCHANGED <<optimized_portfolios, solutions>>
            ELSE /\ optimized_portfolios' = made.portfolios
                 /\ solutions' = made.solutions
                 /\ raised' = "none"
    /\ UNCHANGED <<calls, schedule, constituents, constituent_data, returns,
                   strategy_returns, cumulative_strategy_returns>>

RunBacktest ==
    /\ Idle
    /\ gs' = NotCalled
    /\ LET bt == run_backtest(optimized_portfolios, schedule, returns)
       IN  IF bt.kind = "raised"
           THEN /\ raised' = bt.error
                /\ UNCHANGED <<strategy_returns, cumulative_strategy_returns>>
           ELSE /\ cumulative_strategy_returns' = bt.cumulative_returns
                /\ strategy_returns' = bt.portfolio_returns
                /\ raised' = "none"
    /\ UNCHANGED <<calls, schedule, constituents, constituent_data, returns,
                   optimized_portfolios, solutions>>

\* grid_search(beta_limits, sector_limits, max_weights, log, start), up to
\* the first iteration of its loop.
GridSearchCall ==
    /\ Idle
    /\ \E a \in GridArgs :
         gs' = [kind |-> "running",
                combos |-> Product(a.beta_limits, a.sector_limits, a.max_weights, a.log),
                start |-> a.start,
                results |-> << >>]
    /\ raised' = "none"
    /\ UNCHANGED <<calls, fields>>

\* grid_search ends with the exception a call inside the loop raised.
Abort(error) ==
    /\ gs' = [kind |-> "raised", error |-> error, results |-> gs.results]
    /\ raised' = error

\* One iteration of the loop of grid_search: create_portfolios, run_backtest,
\* the statistics, results.append.
GridSearchStep ==
    /\ gs.kind = "running"
    /\ gs.combos # << >>
    /\ LET c == Head(gs.combos)
       IN  \E made \in create_portfolios(optimized_portfolios, solutions, schedule,
                                         constituent_data, ParamsOf(c)) :
             IF made.kind = "raised"
             THEN /\ Abort(made.error)
                  /\ UNCHANGED <<optimized_portfolios, solutions, strategy_returns,
                                 cumulative_strategy_returns>>
             ELSE LET bt == run_backtest(made.portfolios, schedule, returns)
                  IN  /\ optimized_portfolios' = made.portfolios
                      /\ solutions' = made.solutions
                      /\ IF bt.kind = "raised"
                         THEN /\ Abort(bt.error)
                              /\ UNCHANGED <<strategy_returns, cumulative_strategy_returns>>
                         ELSE /\ cumulative_strategy_returns' = bt.cumulative_returns
                              /\ strategy_returns' = bt.portfolio_returns
                              /\ IF { d \in DOMAIN bt.portfolio_returns : d >= gs.start } = {}
                                 THEN Abort("IndexError")
                                 ELSE /\ gs' = [gs EXCEPT
                                           !.combos = Tail(gs.combos),
                                           !.results = Append(gs.results,
                                              [beta_limit |-> c.beta_limit,
                                               sector_limit |-> c.sector_limit,
                                               max_weight |-> c.max_weight,
                                               log |-> c.log,
                                               final_cumulative_return |->
                                                  FinalCumulativeReturn(bt.portfolio_returns,
                                                                        gs.start)])]
                                      /\ raised' = "none"
    /\ UNCHANGED <<calls, schedule, constituents, constituent_data, returns>>

\* The loop is over: grid_search returns the results.
GridSearchReturn ==
    /\ gs.kind = "running"
    /\ gs.combos = << >>
    /\ gs' = [kind |-> "returned", results |-> gs.results]
    /\ raised' = "none"
    /\ UNCHANGED <<calls, fields>>

RunnerNext ==
    \/ GenerateSchedule
    \/ RetrieveIndexConstituents
    \/ FetchRelevantData
    \/ FetchPrices
    \/ CreatePortfolios
    \/ RunBacktest
    \/ GridSearchCall
    \/ GridSearchStep
    \/ GridSearchReturn

SpecRunner == RunnerInit /\ [][RunnerNext]_vars

-----------------------------------------------------------------------------
(* Properties of optimize_portfolio, checked under SpecOpt                 *)

Returned == opt_out.kind = "returned"

\* The rows that enter the optimization.
Filtered == DropNa(opt_in.data)

PositivePart(w) == SumTo([i \in DOMAIN w |-> IF w[i] > 0 THEN w[i] ELSE 0], Len(w))
NegativePart(w) == SumTo([i \in DOMAIN w |-> IF w[i] < 0 THEN w[i] ELSE 0], Len(w))
Abs(n) == IF n < 0 THEN -n ELSE n

\* C1: whenever optimize_portfolio returns, the positive entries of the
\* 'Optimized Weight' column sum to 1 and its negative entries sum to -1.
C1_UnitBooks ==
    Returned =>
        /\ PositivePart(opt_out.weights) = WeightScale
        /\ NegativePart(opt_out.weights) = -WeightScale

\* A returned portfolio whose long book is spread over more than one asset.
C1_Witness ==
    /\ Returned
    /\ \E i \in DOMAIN opt_out.weights :
         opt_out.weights[i] > 0 /\ opt_out.weights[i] < WeightScale

\* C2: whenever optimize_portfolio returns, no asset has both its long and
\* its short variable nonzero, and no weight exceeds max_weight in absolute
\* value.
C2_ExclusiveAndCapped ==
    Returned =>
        \A i \in DOMAIN opt_out.weights :
            /\ ~(opt_out.longs[i] > 0 /\ opt_out.shorts[i] > 0)
            /\ Abs(opt_out.weights[i]) * Den <= opt_in.max_weight * WeightScale

\* A returned portfolio under a cap below 1, with an asset long at the cap
\* and one short at the cap.
C2_Witness ==
    /\ Returned
    /\ opt_in.max_weight < Den
    /\ \E i, j \in DOMAIN opt_out.weights :
         /\ opt_out.weights[i] * Den = opt_in.max_weight * WeightScale
         /\ opt_out.weights[j] * Den = -(opt_in.max_weight * WeightScale)

\* C3: whenever optimize_portfolio returns, the net beta exposure lies in
\* beta_target_range and the net exposure of every sector of the filtered
\* universe lies in sector_exposure_target.
C3_ExposuresInRange ==
    Returned =>
        /\ BetaExposure(Filtered, opt_out.weights)
              >= opt_in.beta_target_range[1] * WeightScale
        /\ BetaExposure(Filtered, opt_out.weights)
              <= opt_in.beta_target_range[2] * WeightScale
        /\ \A i \in DOMAIN Filtered :
             LET exposure ==
                   SumTo([j \in DOMAIN Filtered |->
                            IF Filtered[j].sector = Filtered[i].sector
                            THEN opt_out.weights[j] ELSE 0], Len(Filtered))
             IN  /\ exposure * Den >= opt_in.sector_exposure_target[1] * WeightScale
                 /\ exposure * Den <= opt_in.sector_exposure_target[2] * WeightScale

\* A returned portfolio under the tight ranges over more than one sector,
\* holding an asset of nonzero beta.
C3_Witness ==
    /\ Returned
    /\ opt_in.beta_target_range = <<-1, 1>>
    /\ opt_in.sector_exposure_target = <<-1, 1>>
    /\ Cardinality(SectorColumns(Filtered)) > 1
    /\ \E i \in DOMAIN opt_out.weights :
         opt_out.weights[i] # 0 /\ Filtered[i].beta # 0

\* The call has ended, one way or the other.
OptDone == opt_out # NotCalled

\* The call raised the error that carries the solver's status.
RaisedWithStatus ==
    /\ opt_out.kind = "raised"
    /\ opt_out.error = "ValueError"
    /\ opt_out.status = "infeasible"

\* Some assignment satisfies every constraint of the call's problem.
SomeFeasible ==
    Feasible(Filtered, opt_in.beta_target_range, opt_in.sector_exposure_target,
             opt_in.max_weight) # {}

\* The call returned longs and shorts that, with some binary z, satisfy every
\* constraint of its problem (so that SomeFeasible holds).
ReturnedFeasible ==
    /\ Returned
    /\ SumTo(opt_out.longs, Len(opt_out.longs)) = WeightScale
    /\ SumTo(opt_out.shorts, Len(opt_out.shorts)) = WeightScale
    /\ \A i \in DOMAIN opt_out.longs : \E z \in {0, 1} :
         Exclusivity([longs |-> opt_out.longs[i], shorts |-> opt_out.shorts[i], z |-> z],
                     opt_in.max_weight)
    /\ BetaConstraints(Filtered, opt_out.weights, opt_in.beta_target_range)
    /\ SectorConstraints(Filtered, opt_out.weights, opt_in.sector_exposure_target)

\* C4: when no assignment satisfies the constraints (as when the assets are
\* too few to reach unit gross exposure under max_weight), optimize_portfolio
\* raises an error carrying the solver's status and returns nothing.
C4_InfeasibleRaises ==
    OptDone =>
        /\ RaisedWithStatus \/ ReturnedFeasible \/ SomeFeasible
        /\ (Len(Filtered) * opt_in.max_weight < Den) => RaisedWithStatus

\* Two assets under max_weight = 0.1: the call has raised.
C4_Witness ==
    /\ RaisedWithStatus
    /\ Len(Filtered) = 2
    /\ opt_in.max_weight = 1

-----------------------------------------------------------------------------
(* Properties of backtest_strategy, checked under SpecBT                   *)

BtReturned == bt_out.kind = "returned"

Tickers == {"X", "Y", "W"}

\* An entry of the schedule whose entry date is a key of optimized_portfolios.
Matched(k) == bt_in.schedule[k].third_to_last \in DOMAIN bt_in.optimized_portfolios

\* Date d lies in the holding window of schedule entry k.
InWindow(d, k) ==
    /\ bt_in.schedule[k].third_to_last <= d
    /\ d <= bt_in.schedule[k].second_to_last

\* The dot product of the weights of entry k with the returns of date d, a
\* missing return or a ticker without a return counting zero.
DotProduct(d, k) ==
    LET w == bt_in.optimized_portfolios[bt_in.schedule[k].third_to_last]
        r == bt_in.daily_returns.values[d]
    IN  SumOver([t \in Tickers |->
                   IF t \in DOMAIN w /\ t \in DOMAIN r /\ r[t] # NaN
                   THEN w[t] * r[t] ELSE 0], Tickers)

NoOverlap ==
    \A i, j \in DOMAIN bt_in.schedule :
        i # j => ~ \E d \in Dates : InWindow(d, i) /\ InWindow(d, j)

\* C5: when no two holding windows share a date, every date of the table
\* inside the window of an entry with a weight vector carries the dot product
\* of that vector with the date's returns, NaN counting zero; the series holds
\* no missing value.
C5_WindowReturns ==
    BtReturned =>
        /\ NoOverlap =>
             \A k \in DOMAIN bt_in.schedule : \A d \in bt_in.daily_returns.index :
                (Matched(k) /\ InWindow(d, k)) =>
                    bt_out.portfolio_returns[d] = DotProduct(d, k)
        /\ DOMAIN bt_out.portfolio_returns = bt_in.daily_returns.index
        /\ \A d \in bt_in.daily_returns.index : bt_out.portfolio_returns[d] # NaN

\* Two disjoint windows, both held; on the exit date of one a return is
\* missing and the portfolio return is not zero.
C5_Witness ==
    /\ BtReturned
    /\ NoOverlap
    /\ Len(bt_in.schedule) = 2
    /\ Matched(1) /\ Matched(2)
    /\ \E d \in bt_in.daily_returns.index :
         /\ d = bt_in.schedule[2].second_to_last
         /\ bt_in.daily_returns.values[d]["X"] = NaN
         /\ bt_out.portfolio_returns[d] # 0

\* C6: a date inside no window of an entry with a weight vector has portfolio
\* return 0; an entry without a weight vector raises nothing and writes
\* nothing.
C6_ZeroOutsideWindows ==
    bt_out # NotCalled =>
        /\ BtReturned
        /\ \A d \in bt_in.daily_returns.index :
             (~ \E k \in DOMAIN bt_in.schedule : Matched(k) /\ InWindow(d, k))
                 => bt_out.portfolio_returns[d] = 0

\* One entry is held and yields a return; a date before it, inside the
\* window of an entry without weights, has returns in the table but stays 0.
C6_Witness ==
    /\ BtReturned
    /\ Len(bt_in.schedule) = 2
    /\ ~Matched(1) /\ Matched(2)
    /\ \E d, e \in bt_in.daily_returns.index :
         /\ InWindow(d, 1) /\ ~InWindow(d, 2)
         /\ d < bt_in.schedule[2].third_to_last
         /\ bt_in.daily_returns.values[d]["Y"] # NaN
         /\ bt_out.portfolio_returns[d] = 0
         /\ InWindow(e, 2) /\ bt_out.portfolio_returns[e] # 0

\* One plus a return, in units of 1 / (Den * WeightScale).
OnePlus(r) == Den * WeightScale + r

\* C7: the cumulative series starts at 1 * (1 + portfolio return) on the
\* first date and is multiplied by (1 + portfolio return) from each date to
\* the next, over the final portfolio-return series.
C7_CumulativeRecurrence ==
    BtReturned =>
        \A d \in bt_in.daily_returns.index :
            IF d - 1 \in bt_in.daily_returns.index
            THEN bt_out.cumulative_returns[d] =
                   bt_out.cumulative_returns[d - 1] * OnePlus(bt_out.portfolio_returns[d])
            ELSE bt_out.cumulative_returns[d] = OnePlus(bt_out.portfolio_returns[d])

\* Three dates in a row with a nonzero portfolio return.
C7_Witness ==
    /\ BtReturned
    /\ \E d \in bt_in.daily_returns.index :
         /\ d + 1 \in bt_in.daily_returns.index
         /\ d + 2 \in bt_in.daily_returns.index
         /\ bt_out.portfolio_returns[d] # 0
         /\ bt_out.portfolio_returns[d + 1] # 0
         /\ bt_out.portfolio_returns[d + 2] # 0

\* Entries 1 and 2 are in chronological order, both have weights, and their
\* windows share a date.
Overlapping ==
    /\ Len(bt_in.schedule) = 2
    /\ bt_in.schedule[1].third_to_last <= bt_in.schedule[2].third_to_last
    /\ Matched(1) /\ Matched(2)
    /\ \E d \in Dates : InWindow(d, 1) /\ InWindow(d, 2)

\* C8: with two entries in chronological order whose windows share a date,
\* both with weights, every shared date carries the later entry's value and
\* every date of the earlier window alone keeps the earlier entry's value.
C8_LaterEntryWins ==
    (BtReturned /\ Overlapping) =>
        \A d \in bt_in.daily_returns.index :
            /\ (InWindow(d, 1) /\ InWindow(d, 2))
                  => bt_out.portfolio_returns[d] = DotProduct(d, 2)
            /\ (InWindow(d, 1) /\ ~InWindow(d, 2))
                  => bt_out.portfolio_returns[d] = DotProduct(d, 1)

\* A shared date on which the two entries' values differ and the later one
\* stands, and a date of the earlier window alone with its own value.
C8_Witness ==
    /\ BtReturned
    /\ Overlapping
    /\ \E d, e \in bt_in.daily_returns.index :
         /\ InWindow(d, 1) /\ InWindow(d, 2)
         /\ DotProduct(d, 1) # DotProduct(d, 2)
         /\ DotProduct(d, 1) # 0
         /\ bt_out.portfolio_returns[d] = DotProduct(d, 2)
         /\ InWindow(e, 1) /\ ~InWindow(e, 2)
         /\ bt_out.portfolio_returns[e] = DotProduct(e, 1)
         /\ bt_out.portfolio_returns[e] # 0

\* The table has a row for both ends of the window of entry k.
Covered(k) ==
    /\ bt_in.schedule[k].third_to_last \in bt_in.daily_returns.index
    /\ bt_in.schedule[k].second_to_last \in bt_in.daily_returns.index

\* C9: when the table does not cover the window of an entry with weights,
\* backtest_strategy raises an error and returns no series.
C9_MisalignmentRaises ==
    (bt_out # NotCalled /\ \E k \in DOMAIN bt_in.schedule : Matched(k) /\ ~Covered(k))
        => bt_out.kind = "raised"

-----------------------------------------------------------------------------
(* Properties of STRRunner, checked under SpecRunner                       *)

\* The combination of the row grid_search recorded last.
LastRecorded == gs.results[Len(gs.results)]

\* The 'Optimized Weight' columns optimize_portfolio can return for the
\* universe of snapshot date key under the combination c.
FreshWeights(key, c) ==
    { OptimizedWeight(constituent_data[key], o) :
        o \in { out \in optimize_portfolio(
                           [data |-> constituent_data[key],
                            beta_target_range |-> <<-c.beta_limit, c.beta_limit>>,
                            sector_exposure_target |-> <<-c.sector_limit, c.sector_limit>>,
                            max_weight |-> c.max_weight,
                            log |-> c.log]) : out.kind = "returned" } }

\* The rows grid_search recorded before the last one.
EarlierRecorded == { gs.results[i] : i \in 1..(Len(gs.results) - 1) }

\* C10: while grid_search runs, the portfolios its last backtest used (the
\* ones recorded in the last row's statistics) are, for every rebalance date
\* that an earlier combination of the sweep optimized successfully, weight
\* vectors optimize_portfolio returns under the last row's combination; such
\* a date holds no portfolio when its optimization fails under that
\* combination.
C10_OnlyCurrentCombination ==
    (gs.kind = "running" /\ gs.results # << >>) =>
        \A key \in DOMAIN constituent_data :
            (/\ FridayOf(schedule, key) \in DOMAIN optimized_portfolios
             /\ \E c \in EarlierRecorded : FreshWeights(key, c) # {})
                => optimized_portfolios[FridayOf(schedule, key)]
                       \in FreshWeights(key, LastRecorded)

\* The combinations grid_search has recorded a row for, in order, followed
\* by the ones it has still to visit.
Visited ==
    [i \in 1..Len(gs.results) |->
        [beta_limit |-> gs.results[i].beta_limit,
         sector_limit |-> gs.results[i].sector_limit,
         max_weight |-> gs.results[i].max_weight,
         log |-> gs.results[i].log]] \o gs.combos

\* While the loop runs, rows and remaining combinations together are the
\* Cartesian product of the argument lists, each element once.
VisitsProduct ==
    gs.kind = "running" =>
        \E a \in GridArgs :
            Visited = Product(a.beta_limits, a.sector_limits, a.max_weights, a.log)

\* grid_search ended with the ValueError of run_backtest ("No portfolios
\* found"): constituent data was there, so create_portfolios ran its loop and
\* every optimization of every date failed.
AbortedByFailures ==
    /\ gs.kind = "raised"
    /\ gs.error = "ValueError"
    /\ DOMAIN constituent_data # {}

\* C11: grid_search visits every element of the product of its argument
\* lists exactly once with one result row each, and optimizer failures,
\* however many dates fail under a combination, never end the sweep with
\* an exception.
C11_FailuresNeverAbort ==
    /\ VisitsProduct
    /\ ~AbortedByFailures

\* Scenario A as a call of optimize_portfolio: three rows enter the
\* optimization, with betas 0.5, -0.5 and 1.0, each in its own sector, under
\* max_weight = 0.5, beta_range = (-0.1, 0.1), sector_range = (-1, 1).
ScenarioA ==
    /\ OptDone
    /\ Len(Filtered) = 3
    /\ [i \in 1..3 |-> Filtered[i].beta] = <<5, -5, 10>>
    /\ \A i, j \in 1..3 : i # j => Filtered[i].sector # Filtered[j].sector
    /\ opt_in.max_weight = 5
    /\ opt_in.beta_target_range = <<-1, 1>>
    /\ opt_in.sector_exposure_target = <<-10, 10>>

\* C12 as stated: in scenario A optimize_portfolio returns a solution with
\* two assets long at the cap, one asset short, and net beta in [-0.1, 0.1].
C12_ScenarioAFeasible ==
    ScenarioA =>
        /\ Returned
        /\ Cardinality({ i \in DOMAIN opt_out.weights :
                           opt_out.weights[i] * Den = opt_in.max_weight * WeightScale }) = 2
        /\ Cardinality({ i \in DOMAIN opt_out.weights : opt_out.weights[i] < 0 }) = 1
        /\ BetaConstraints(Filtered, opt_out.weights, opt_in.beta_target_range)

\* C12, amended: in scenario A the problem is infeasible (under the cap 0.5
\* each book needs two assets of its own, and there are three), and
\* optimize_portfolio raises ValueError carrying the solver's status.
C12_ScenarioAInfeasible == ScenarioA => RaisedWithStatus

C12_Witness == ScenarioA /\ RaisedWithStatus /\ ~SomeFeasible

\* The three inputs of backtest_strategy are there: a generated schedule,
\* the daily returns fetch_prices loads, at least one optimized portfolio.
Populated ==
    /\ schedule # NoSchedule
    /\ returns # EmptyDict
    /\ DOMAIN optimized_portfolios # {}

\* C13: a call of run_backtest made while one of the three inputs is missing
\* raises ValueError, without reaching into backtest_strategy, and leaves
\* strategy_returns and cumulative_strategy_returns as they were.
C13_BacktestGuarded ==
    [][(RunBacktest /\ ~Populated) =>
          /\ raised' = "ValueError"
          /\ UNCHANGED <<strategy_returns, cumulative_strategy_returns>>]_vars

====
